---- MODULE Spec2Model ----
(***************************************************************************)
(* llmstreamer: StreamChat of the OpenAI and the Anthropic streamer.       *)
(*                                                                         *)
(* One StreamChat invocation is modelled from the call to its return (or   *)
(* to the panic that leaves it).  Bytes are modelled as tokens: a token is *)
(* a run of bytes the decoder never looks inside ("\n", a blank, the       *)
(* literal "data: ", a JSON document, ...).  Texts are sequences of        *)
(* characters, so that string concatenation is \o.                         *)
(***************************************************************************)
EXTENDS Integers, Sequences, FiniteSets, TLC

\* Bounds: number of lines the server writes to one response body: when all
\* three callbacks are supplied, when some callback is nil, and when the
\* streamer's Model is set (processStream never reads the request, so the
\* longer bodies are explored with the default model).
MaxLines == 3
MaxLinesPartial == 2
MaxLinesWithModel == 1

\* Bound: number of lines in flight, written by the server and not yet read.
MaxInFlight == 2

\* Bound: number of lines in the body of a non-200 response.
MaxErrBodyLines == 1

\* Bound: number of lines of a response body when termination is checked.
MaxLinesLive == 2

\* Bound: number of lines of each response body when two invocations run
\* concurrently.
MaxLinesConc == 1

\* RequestBody.MaxTokens as set by StreamChat.
MaxTokensValue == 1024

\* http.StatusOK and the non-success status the model's server answers with.
StatusOK == 200
StatusBad == 500

(***************************************************************************)
(* Tokens                                                                  *)
(***************************************************************************)
NL == "\n"
SP == " "
DataPrefix == "data: "
DataColon == "data:"
EventLine == "event: x"
DoneTok == "[DONE]"
BadTok == "not-a-json"

\* bytes that unicode.IsSpace accepts (bytes.TrimSpace)
Space == {NL, SP}

\* Texts
TextA == <<"a">>
TextBC == <<"b", "c">>
NoText == <<>>

JDeltaA == "{type:content_block_delta,delta:{text:a}}"
JDeltaBC == "{type:content_block_delta,delta:{text:bc}}"
JDeltaEmpty == "{type:content_block_delta,delta:{text:}}"
JDeltaNil == "{type:content_block_delta}"
JStop == "{type:message_stop}"
JPing == "{type:ping}"
JChoiceA == "{choices:[{delta:{content:a}}]}"
JChoiceBC == "{choices:[{delta:{content:bc}}]}"
JChoiceRole == "{choices:[{delta:{role:assistant}}]}"
JChoiceNone == "{choices:[]}"
JChoiceABC == "{choices:[{delta:{content:a}},{delta:{content:bc}}]}"

JsonTokens == {JDeltaA, JDeltaBC, JDeltaEmpty, JDeltaNil, JStop, JPing,
               JChoiceA, JChoiceBC, JChoiceRole, JChoiceNone, JChoiceABC}

\* The JSON document a token stands for: its "type", whether it has a
\* "delta" object and that object's "text", and the "content" of each entry
\* of its "choices" array.
JsonValue(tok) ==
  CASE tok = JDeltaA -> [type |-> "content_block_delta", hasDelta |-> TRUE, text |-> TextA, choices |-> <<>>]
    [] tok = JDeltaBC -> [type |-> "content_block_delta", hasDelta |-> TRUE, text |-> TextBC, choices |-> <<>>]
    [] tok = JDeltaEmpty -> [type |-> "content_block_delta", hasDelta |-> TRUE, text |-> NoText, choices |-> <<>>]
    [] tok = JDeltaNil -> [type |-> "content_block_delta", hasDelta |-> FALSE, text |-> NoText, choices |-> <<>>]
    [] tok = JStop -> [type |-> "message_stop", hasDelta |-> FALSE, text |-> NoText, choices |-> <<>>]
    [] tok = JPing -> [type |-> "ping", hasDelta |-> FALSE, text |-> NoText, choices |-> <<>>]
    [] tok = JChoiceA -> [type |-> "", hasDelta |-> FALSE, text |-> NoText, choices |-> <<TextA>>]
    [] tok = JChoiceBC -> [type |-> "", hasDelta |-> FALSE, text |-> NoText, choices |-> <<TextBC>>]
    [] tok = JChoiceRole -> [type |-> "", hasDelta |-> FALSE, text |-> NoText, choices |-> <<NoText>>]
    [] tok = JChoiceNone -> [type |-> "", hasDelta |-> FALSE, text |-> NoText, choices |-> <<>>]
    [] tok = JChoiceABC -> [type |-> "", hasDelta |-> FALSE, text |-> NoText, choices |-> <<TextA, TextBC>>]

(***************************************************************************)
(* Byte helpers of the decoder                                             *)
(***************************************************************************)
RECURSIVE TrimLeft(_)
TrimLeft(s) ==
  IF s = <<>> THEN <<>>
  ELSE IF Head(s) \in Space THEN TrimLeft(Tail(s)) ELSE s

RECURSIVE TrimRight(_)
TrimRight(s) ==
  IF s = <<>> THEN <<>>
  ELSE IF s[Len(s)] \in Space THEN TrimRight(SubSeq(s, 1, Len(s) - 1))
  ELSE IF s[Len(s)] = DataPrefix THEN Append(SubSeq(s, 1, Len(s) - 1), DataColon)
  ELSE s

\* bytes.TrimSpace
TrimSpace(s) == TrimRight(TrimLeft(s))

\* bytes.HasPrefix(line, []byte("data: "))
HasDataPrefix(line) ==
  /\ line # <<>>
  /\ \/ line[1] = DataPrefix
     \/ line[1] = DataColon /\ Len(line) > 1 /\ line[2] = SP

\* line[len("data: "):]
DataOf(line) ==
  IF line[1] = DataPrefix THEN Tail(line) ELSE Tail(Tail(line))

\* json.Unmarshal(data, &ev): leading blanks are skipped, then exactly one
\* JSON object must follow.
Unmarshal(data) ==
  LET d == TrimLeft(data) IN
  IF Len(d) = 1 /\ d[1] \in JsonTokens
    THEN [ok |-> TRUE, ev |-> JsonValue(d[1])]
    ELSE [ok |-> FALSE, ev |-> JsonValue(JPing)]

(***************************************************************************)
(* Callbacks                                                               *)
(***************************************************************************)
Slots == {"OnContent", "OnFinish", "OnError"}

\* cb *llmstreamer.StreamCallbacks: nonNil is `cb != nil`, and each slot is
\* TRUE when that function field is not nil.
CallbackSets ==
  {c \in [nonNil : BOOLEAN, OnContent : BOOLEAN, OnFinish : BOOLEAN, OnError : BOOLEAN] :
     ~c.nonNil => (~c.OnContent /\ ~c.OnFinish /\ ~c.OnError)}

\* `cb != nil && cb.<slot> != nil`
Supplied(c, slot) == c.nonNil /\ c[slot]

\* One callback invocation, as the caller observes it.
ContentCall(t) == [cb |-> "OnContent", text |-> t, err |-> "", code |-> 0]
FinishCall(t) == [cb |-> "OnFinish", text |-> t, err |-> "", code |-> 0]
ErrorCall(e) == [cb |-> "OnError", text |-> NoText, err |-> e, code |-> 0]
\* fmt.Errorf("non-200: %d, ...", resp.StatusCode, ...): the error carries the
\* status code and, when the body could be read, the body as text
StatusErrorCall(e, code, b) == [cb |-> "OnError", text |-> b, err |-> e, code |-> code]

\* Error values
ErrInvalidKey == "invalid apiKey"
ErrTransport == "transport failure"
ErrParse == "failed to parse JSON"
ErrRead == "read failed"
ErrNon200Body == "non-200: body"
ErrNon200Read == "non-200: read body failed"

\* The result of a piece of straight-line code: the accumulator it leaves,
\* the callback invocations it made, and where control goes: "continue"
\* (next loop iteration), "return", or "panic" (a nil callback was called).
Step(f, o, k) == [fm |-> f, out |-> o, ctl |-> k]

\* cb.<slot>(...) with no nil check, control going to k afterwards
Unchecked(c, slot, call, f, k) ==
  IF Supplied(c, slot) THEN Step(f, <<call>>, k) ELSE Step(f, <<>>, "panic")

(***************************************************************************)
(* OpenAI: processStream                                                   *)
(***************************************************************************)
\* mutant: end-of-input is reported as a read failure
OpenAIReadFailedStrict(e, fm, c) ==
  Unchecked(c, "OnError", ErrorCall(ErrRead), fm, "return")

\* mutant: a read that fails because the context was cancelled is taken for
\* the end of the stream
OpenAIReadFailedCancelFinishes(e, fm, c) ==
  IF e \in {"eof", "cancelled"}
    THEN Unchecked(c, "OnFinish", FinishCall(fm), fm, "return")
    ELSE Unchecked(c, "OnError", ErrorCall(ErrRead), fm, "return")

\* mutant: on end-of-input the loop goes round again
OpenAIReadFailedRetries(e, fm, c) ==
  IF e = "eof"
    THEN Step(fm, <<>>, "continue")
    ELSE Unchecked(c, "OnError", ErrorCall(ErrRead), fm, "return")

\* err != nil after reader.ReadBytes: io.EOF finishes, anything else fails
OpenAIReadFailed(e, fm, c) ==
  IF e = "eof"
    THEN Unchecked(c, "OnFinish", FinishCall(fm), fm, "return")
    ELSE Unchecked(c, "OnError", ErrorCall(ErrRead), fm, "return")

\* mutant: the return after OnFinish is missing
OpenAIDoneNoReturn(fm, c) == Unchecked(c, "OnFinish", FinishCall(fm), fm, "continue")

\* data equals "[DONE]"
OpenAIDone(fm, c) == Unchecked(c, "OnFinish", FinishCall(fm), fm, "return")

\* mutant: a parse failure ends the stream
OpenAIParseErrorFatal(fm, c) == Unchecked(c, "OnError", ErrorCall(ErrParse), fm, "return")

\* json.Unmarshal failed
OpenAIParseError(fm, c) == Unchecked(c, "OnError", ErrorCall(ErrParse), fm, "continue")

\* mutant: the fragment is delivered but not appended to finalMessage
OpenAIChoicesNoAppend(ev, fm, c) ==
  IF Len(ev.choices) > 0
    THEN LET content == ev.choices[1] IN
         IF content # NoText
           THEN Step(fm,
                     IF Supplied(c, "OnContent") THEN <<ContentCall(content)>> ELSE <<>>,
                     "continue")
           ELSE Step(fm, <<>>, "continue")
    ELSE Step(fm, <<>>, "continue")

\* mutant: the last entry of choices is used instead of the first
OpenAIChoicesLast(ev, fm, c) ==
  IF Len(ev.choices) > 0
    THEN LET content == ev.choices[Len(ev.choices)] IN
         IF content # NoText
           THEN Step(fm \o content,
                     IF Supplied(c, "OnContent") THEN <<ContentCall(content)>> ELSE <<>>,
                     "continue")
           ELSE Step(fm, <<>>, "continue")
    ELSE Step(fm, <<>>, "continue")

\* a decoded event: only Choices[0] is looked at
OpenAIChoices(ev, fm, c) ==
  IF Len(ev.choices) > 0
    THEN LET content == ev.choices[1] IN
         IF content # NoText
           THEN Step(fm \o content,
                     IF Supplied(c, "OnContent") THEN <<ContentCall(content)>> ELSE <<>>,
                     "continue")
           ELSE Step(fm, <<>>, "continue")
    ELSE Step(fm, <<>>, "continue")

\* mutant: the sentinel is not looked for, so `[DONE]` goes to json.Unmarshal
OpenAILineParsesDone(raw, fm, c) ==
  LET line == TrimSpace(raw) IN
  IF Len(line) = 0 THEN Step(fm, <<>>, "continue")
  ELSE IF HasDataPrefix(line)
    THEN LET data == DataOf(line)
             r == Unmarshal(data) IN
         IF ~r.ok THEN OpenAIParseError(fm, c)
         ELSE OpenAIChoices(r.ev, fm, c)
    ELSE Step(fm, <<>>, "continue")

\* mutant: an empty line is taken for the end of the stream
OpenAILineBlankEnds(raw, fm, c) ==
  LET line == TrimSpace(raw) IN
  IF Len(line) = 0 THEN OpenAIDone(fm, c)
  ELSE IF HasDataPrefix(line)
    THEN LET data == DataOf(line) IN
         IF data = <<DoneTok>> THEN OpenAIDone(fm, c)
         ELSE LET r == Unmarshal(data) IN
              IF ~r.ok THEN OpenAIParseError(fm, c)
              ELSE OpenAIChoices(r.ev, fm, c)
    ELSE Step(fm, <<>>, "continue")

\* the body of the loop once ReadBytes returned a line
OpenAILine(raw, fm, c) ==
  LET line == TrimSpace(raw) IN
  IF Len(line) = 0 THEN Step(fm, <<>>, "continue")
  ELSE IF HasDataPrefix(line)
    THEN LET data == DataOf(line) IN
         IF data = <<DoneTok>> THEN OpenAIDone(fm, c)
         ELSE LET r == Unmarshal(data) IN
              IF ~r.ok THEN OpenAIParseError(fm, c)
              ELSE OpenAIChoices(r.ev, fm, c)
    ELSE Step(fm, <<>>, "continue")

\* mutant: the return after the status-and-body error is missing, so the
\* decoding loop runs on the body
OpenAINon200NoReturn(code, readOk, b, c) ==
  IF ~readOk
    THEN Unchecked(c, "OnError", StatusErrorCall(ErrNon200Read, code, NoText), NoText, "return")
    ELSE Unchecked(c, "OnError", StatusErrorCall(ErrNon200Body, code, b), NoText, "continue")

\* resp.StatusCode != http.StatusOK: io.ReadAll, then one OnError
OpenAINon200(code, readOk, b, c) ==
  IF ~readOk
    THEN Unchecked(c, "OnError", StatusErrorCall(ErrNon200Read, code, NoText), NoText, "return")
    ELSE Unchecked(c, "OnError", StatusErrorCall(ErrNon200Body, code, b), NoText, "return")

(***************************************************************************)
(* Anthropic: processStream                                                *)
(***************************************************************************)
\* mutant: every read error is taken for end-of-input
AnthropicReadFailedFinishes(e, fm, c) ==
  Unchecked(c, "OnFinish", FinishCall(fm), fm, "return")

\* err != nil after reader.ReadBytes
AnthropicReadFailed(e, fm, c) ==
  IF e = "eof"
    THEN Unchecked(c, "OnFinish", FinishCall(fm), fm, "return")
    ELSE Unchecked(c, "OnError", ErrorCall(ErrRead), fm, "return")

AnthropicParseError(fm, c) == Unchecked(c, "OnError", ErrorCall(ErrParse), fm, "continue")

\* mutant: finalMessage is assigned, not appended to
AnthropicDeltaAssign(ev, fm, c) ==
  IF ev.hasDelta /\ ev.text # NoText
    THEN IF Supplied(c, "OnContent")
           THEN Step(ev.text, <<ContentCall(ev.text)>>, "continue")
           ELSE Step(fm, <<>>, "continue")
    ELSE Step(fm, <<>>, "continue")

\* mutant: OnContent gets the cumulative text
AnthropicDeltaCumulative(ev, fm, c) ==
  IF ev.hasDelta /\ ev.text # NoText
    THEN IF Supplied(c, "OnContent")
           THEN Step(fm \o ev.text, <<ContentCall(fm \o ev.text)>>, "continue")
           ELSE Step(fm, <<>>, "continue")
    ELSE Step(fm, <<>>, "continue")

\* case Delta
AnthropicDelta(ev, fm, c) ==
  IF ev.hasDelta /\ ev.text # NoText
    THEN IF Supplied(c, "OnContent")
           THEN Step(fm \o ev.text, <<ContentCall(ev.text)>>, "continue")
           ELSE Step(fm, <<>>, "continue")
    ELSE Step(fm, <<>>, "continue")

\* case Finish
AnthropicFinish(fm, c) ==
  IF Supplied(c, "OnFinish")
    THEN Step(fm, <<FinishCall(fm)>>, "return")
    ELSE Step(fm, <<>>, "continue")

\* mutant: an event of an unknown type is reported as a parse failure
AnthropicSwitchUnknownFails(ev, fm, c) ==
  CASE ev.type = "content_block_delta" -> AnthropicDelta(ev, fm, c)
    [] ev.type = "message_stop" -> AnthropicFinish(fm, c)
    [] OTHER -> AnthropicParseError(fm, c)

\* switch ev.Type
AnthropicSwitch(ev, fm, c) ==
  CASE ev.type = "content_block_delta" -> AnthropicDelta(ev, fm, c)
    [] ev.type = "message_stop" -> AnthropicFinish(fm, c)
    [] OTHER -> Step(fm, <<>>, "continue")

AnthropicLine(raw, fm, c) ==
  LET line == TrimSpace(raw) IN
  IF Len(line) = 0 THEN Step(fm, <<>>, "continue")
  ELSE IF HasDataPrefix(line)
    THEN LET data == DataOf(line)
             r == Unmarshal(data) IN
         IF ~r.ok THEN AnthropicParseError(fm, c)
         ELSE AnthropicSwitch(r.ev, fm, c)
    ELSE Step(fm, <<>>, "continue")

\* mutant: the return after the read-body-failure error is missing, so the
\* status-and-body error is reported as well
AnthropicNon200BothErrors(code, readOk, b, c) ==
  IF ~c.nonNil \/ ~c.OnError THEN Step(NoText, <<>>, "panic")
  ELSE IF ~readOk
    THEN Step(NoText, <<StatusErrorCall(ErrNon200Read, code, NoText),
                        StatusErrorCall(ErrNon200Body, code, b)>>, "return")
    ELSE Step(NoText, <<StatusErrorCall(ErrNon200Body, code, b)>>, "return")

AnthropicNon200(code, readOk, b, c) ==
  IF ~readOk
    THEN Unchecked(c, "OnError", StatusErrorCall(ErrNon200Read, code, NoText), NoText, "return")
    ELSE Unchecked(c, "OnError", StatusErrorCall(ErrNon200Body, code, b), NoText, "return")

(***************************************************************************)
(* StreamChat: validation and the outcome of the HTTP exchange             *)
(***************************************************************************)
ModelGPT4o == "gpt-4o"
ModelGPT4oMini == "gpt-4o-mini"
ModelClaude3Opus == "claude-3-opus-20240229"
ModelClaude35Haiku == "claude-3-5-haiku-20241022"

RequestBody(m) == [model |-> m, max_tokens |-> MaxTokensValue, stream |-> TRUE]
NoPayload == RequestBody("")

\* mutant: the return after the "invalid apiKey" error is missing
OpenAIValidateNoReturn(apiKey, model, c) ==
  [out |-> IF apiKey = "" /\ Supplied(c, "OnError") THEN <<ErrorCall(ErrInvalidKey)>> ELSE <<>>,
   ctl |-> "continue",
   payload |-> RequestBody(IF model = "" THEN ModelGPT4o ELSE model)]

\* s.ApiKey == "": OnError if it is there, and return; otherwise the payload
OpenAIValidate(apiKey, model, c) ==
  IF apiKey = ""
    THEN [out |-> IF Supplied(c, "OnError") THEN <<ErrorCall(ErrInvalidKey)>> ELSE <<>>,
          ctl |-> "return", payload |-> NoPayload]
    ELSE [out |-> <<>>, ctl |-> "continue",
          payload |-> RequestBody(IF model = "" THEN ModelGPT4o ELSE model)]

\* mutant: the streamer's Model is ignored, the default is always sent
AnthropicValidateIgnoresModel(apiKey, model, c) ==
  IF apiKey = ""
    THEN [out |-> IF Supplied(c, "OnError") THEN <<ErrorCall(ErrInvalidKey)>> ELSE <<>>,
          ctl |-> "return", payload |-> NoPayload]
    ELSE [out |-> <<>>, ctl |-> "continue", payload |-> RequestBody(ModelClaude3Opus)]

AnthropicValidate(apiKey, model, c) ==
  IF apiKey = ""
    THEN [out |-> IF Supplied(c, "OnError") THEN <<ErrorCall(ErrInvalidKey)>> ELSE <<>>,
          ctl |-> "return", payload |-> NoPayload]
    ELSE [out |-> <<>>, ctl |-> "continue",
          payload |-> RequestBody(IF model = "" THEN ModelClaude3Opus ELSE model)]

\* mutant: the error streamOpenAI returns is dropped
OpenAIStreamFailedSilent(e, c) == <<>>

\* streamOpenAI returned err: `if cb != nil && cb.OnError != nil`
OpenAIStreamFailed(e, c) ==
  IF Supplied(c, "OnError") THEN <<ErrorCall(e)>> ELSE <<>>

AnthropicStreamFailed(e, c) ==
  IF Supplied(c, "OnError") THEN <<ErrorCall(e)>> ELSE <<>>

(***************************************************************************)
(* The lines a server may write                                            *)
(***************************************************************************)
CommonLines ==
  { <<NL>>, <<SP, NL>>, <<EventLine, NL>>, <<DataPrefix, BadTok, NL>> }

OpenAILines ==
  CommonLines \cup
  { <<DataPrefix, JChoiceA, NL>>, <<DataPrefix, JChoiceBC, NL>>,
    <<DataPrefix, JChoiceRole, NL>>, <<DataPrefix, JChoiceABC, NL>>,
    <<DataPrefix, JChoiceNone, NL>>,
    <<DataPrefix, DoneTok, NL>>, <<DataColon, JChoiceA, NL>> }

AnthropicLines ==
  CommonLines \cup
  { <<DataPrefix, JDeltaA, NL>>, <<DataPrefix, JDeltaBC, NL>>,
    <<DataPrefix, JDeltaEmpty, NL>>, <<DataPrefix, JPing, NL>>,
    <<DataPrefix, JStop, NL>>, <<DataColon, JDeltaA, NL>> }

LinesOf(p) == IF p = "openai" THEN OpenAILines ELSE AnthropicLines

\* what a body may end with when its last line has no newline: a content
\* delta, or the provider's terminator
TruncatedOf(p) ==
  IF p = "openai" THEN {<<DataPrefix, JChoiceA>>, <<DataPrefix, DoneTok>>}
                  ELSE {<<DataPrefix, JDeltaA>>, <<DataPrefix, JStop>>}

\* number of lines that end in s
CountNL(s) == Cardinality({i \in 1..Len(s) : s[i] = NL})

(***************************************************************************)
(* State                                                                   *)
(***************************************************************************)
VARIABLES
  provider,      \* which streamer StreamChat is called on
  ApiKey,        \* s.ApiKey
  Model,         \* s.Model
  cb,            \* the callbacks argument
  pc,            \* "idle", "request", "process", "reading", "done", "panicked"
  payload,       \* the RequestBody built by StreamChat
  reqBuilt,      \* prepareRequest ran
  httpCalls,     \* number of client.Do calls
  status,        \* resp.StatusCode, 0 before a response
  wire,          \* bytes the server wrote that were not read yet
  quota,         \* lines the server may still write
  buf,           \* bufio.Reader: bytes read and not yet returned
  rdErr,         \* bufio.Reader: the error of the last Read ("eof", "err",
                 \* "cancelled"), "none" if none
  finalMessage,  \* the accumulator
  calls,         \* the callback invocations so far, in order
  consumed,      \* the lines ReadBytes returned so far, in order
  closed,        \* number of resp.Body.Close() calls
  errBody,       \* `b, err := io.ReadAll(resp.Body)` of a non-200 response
  peer           \* a second StreamChat invocation on the same streamer, while
                 \* it is not the one running: its arguments and locals

vars == <<provider, ApiKey, Model, cb, pc, payload, reqBuilt, httpCalls, status,
          wire, quota, buf, rdErr, finalMessage, calls, consumed, closed, errBody, peer>>

input == <<provider, ApiKey, Model, cb>>
stream == <<wire, quota, buf, rdErr, finalMessage, consumed>>
\* what the decoding loop of a status-200 response never touches
aside == <<errBody, peer>>

ModelsOf(p) ==
  IF p = "openai" THEN {"", ModelGPT4oMini} ELSE {"", ModelClaude35Haiku}

AllSupplied(c) == Supplied(c, "OnContent") /\ Supplied(c, "OnFinish") /\ Supplied(c, "OnError")

QuotaOf(m, c) ==
  IF m # "" THEN MaxLinesWithModel
  ELSE IF AllSupplied(c) THEN MaxLines ELSE MaxLinesPartial

\* io.ReadAll was not called
NoErrBody == [err |-> "none", b |-> <<>>]

\* StreamChat was called with callbacks c, and the server will write q lines
Called(c, q) ==
  /\ cb = c
  /\ pc = "idle"
  /\ payload = NoPayload
  /\ reqBuilt = FALSE
  /\ httpCalls = 0
  /\ status = 0
  /\ wire = <<>>
  /\ quota = q
  /\ buf = <<>>
  /\ rdErr = "none"
  /\ finalMessage = NoText
  /\ calls = <<>>
  /\ consumed = <<>>
  /\ closed = 0
  /\ errBody = NoErrBody

\* there is no second invocation
NoPeer == [pc |-> "absent"]

Init ==
  /\ provider \in {"openai", "anthropic"}
  /\ ApiKey \in {"", "key"}
  /\ Model \in ModelsOf(provider)
  /\ \E c \in CallbackSets : Called(c, QuotaOf(Model, c))
  /\ peer = NoPeer

HasNL(s) == \E i \in 1..Len(s) : s[i] = NL
FirstNL(s) == CHOOSE i \in 1..Len(s) : s[i] = NL /\ \A j \in 1..(i - 1) : s[j] # NL

\* where control is after a step of processStream; its return runs the
\* deferred resp.Body.Close(), and so does a panic passing through
PcAfter(k) ==
  CASE k = "continue" -> "reading"
    [] k = "return" -> "done"
    [] k = "panic" -> "panicked"

\* mutant: resp.Body.Close() is called after processStream instead of being
\* deferred, so a panic skips it
BodyCloseNotDeferred(k, n) == IF k = "return" THEN n + 1 ELSE n

\* `defer resp.Body.Close()`: the number of Close calls after a step of
\* processStream that leaves control at k, n being the number before it
BodyClose(k, n) == IF k = "continue" THEN n ELSE n + 1

(***************************************************************************)
(* Actions                                                                 *)
(***************************************************************************)
\* StreamChat up to the call of streamOpenAI / streamAnthropic
StreamChat ==
  /\ pc = "idle"
  /\ LET r == IF provider = "openai" THEN OpenAIValidate(ApiKey, Model, cb)
                                     ELSE AnthropicValidate(ApiKey, Model, cb) IN
       /\ calls' = calls \o r.out
       /\ payload' = r.payload
       /\ pc' = IF r.ctl = "return" THEN "done" ELSE "request"
  /\ UNCHANGED <<input, aside, reqBuilt, httpCalls, status, stream, closed>>

\* prepareRequest and client.Do fail: the error comes back to StreamChat
DoFails ==
  /\ pc = "request"
  /\ reqBuilt' = TRUE
  /\ httpCalls' = httpCalls + 1
  /\ calls' = calls \o (IF provider = "openai" THEN OpenAIStreamFailed(ErrTransport, cb)
                                               ELSE AnthropicStreamFailed(ErrTransport, cb))
  /\ pc' = "done"
  /\ UNCHANGED <<input, aside, payload, status, stream, closed>>

\* prepareRequest and client.Do return a response
DoResponds(code) ==
  /\ pc = "request"
  /\ reqBuilt' = TRUE
  /\ httpCalls' = httpCalls + 1
  /\ status' = code
  /\ pc' = "process"
  /\ UNCHANGED <<input, aside, payload, calls, stream, closed>>

\* the server writes one line of the body of a non-200 response
ServerSendError(line) ==
  /\ pc = "process"
  /\ status # StatusOK
  /\ CountNL(wire) < MaxErrBodyLines
  /\ wire' = wire \o line
  /\ UNCHANGED <<input, aside, pc, payload, reqBuilt, httpCalls, status, quota, buf, rdErr,
                 finalMessage, calls, consumed, closed>>

\* processStream, non-200: io.ReadAll reads the body to its end (or fails),
\* and the outcome is reported
Non200(readOk) ==
  /\ pc = "process"
  /\ status # StatusOK
  /\ LET r == IF provider = "openai" THEN OpenAINon200(status, readOk, wire, cb)
                                     ELSE AnthropicNon200(status, readOk, wire, cb) IN
       /\ calls' = calls \o r.out
       /\ pc' = PcAfter(r.ctl)
       /\ closed' = BodyClose(r.ctl, closed)
  /\ wire' = <<>>
  /\ errBody' = [err |-> IF readOk THEN "nil" ELSE "failed",
                  b |-> IF readOk THEN wire ELSE <<>>]
  /\ UNCHANGED <<input, peer, payload, reqBuilt, httpCalls, status, quota, buf, rdErr,
                 finalMessage, consumed>>

\* processStream, 200: bufio.NewReader(resp.Body), var finalMessage string
StartReading ==
  /\ pc = "process"
  /\ status = StatusOK
  /\ pc' = "reading"
  /\ UNCHANGED <<input, aside, payload, reqBuilt, httpCalls, status, stream, calls, closed>>

\* the server writes one more line to the body
ServerSend(line) ==
  /\ pc = "reading"
  /\ rdErr = "none"
  /\ quota > 0
  /\ CountNL(wire) < MaxInFlight
  /\ wire' = wire \o line
  /\ quota' = quota - 1
  /\ UNCHANGED <<input, aside, pc, payload, reqBuilt, httpCalls, status, buf, rdErr,
                 finalMessage, calls, consumed, closed>>

\* mutant: the bytes buffered before the Read are dropped when it returns
ReadDropsPartial(k) ==
  /\ pc = "reading"
  /\ ~HasNL(buf)
  /\ rdErr = "none"
  /\ k \in 1..Len(wire)
  /\ buf' = SubSeq(wire, 1, k)
  /\ wire' = SubSeq(wire, k + 1, Len(wire))
  /\ UNCHANGED <<input, aside, pc, payload, reqBuilt, httpCalls, status, quota, rdErr,
                 finalMessage, calls, consumed, closed>>

\* ReadBytes found no '\n' in the buffer: one Read of the body returns some
\* of the bytes that arrived
Read(k) ==
  /\ pc = "reading"
  /\ ~HasNL(buf)
  /\ rdErr = "none"
  /\ k \in 1..Len(wire)
  /\ buf' = buf \o SubSeq(wire, 1, k)
  /\ wire' = SubSeq(wire, k + 1, Len(wire))
  /\ UNCHANGED <<input, aside, pc, payload, reqBuilt, httpCalls, status, quota, rdErr,
                 finalMessage, calls, consumed, closed>>

\* the same Read when nothing is left: the body ended (io.EOF), or the
\* connection broke
ReadEnd(e) ==
  /\ pc = "reading"
  /\ ~HasNL(buf)
  /\ rdErr = "none"
  /\ wire = <<>>
  /\ rdErr' = e
  /\ UNCHANGED <<input, aside, pc, payload, reqBuilt, httpCalls, status, wire, quota, buf,
                 finalMessage, calls, consumed, closed>>

\* the last Read returns the bytes of a line that has no newline, and then
\* the body ends or the connection breaks: ReadBytes has these bytes and an
\* error
TruncatedEnd(e, tail) ==
  /\ pc = "reading"
  /\ ~HasNL(buf)
  /\ rdErr = "none"
  /\ wire = <<>>
  /\ quota > 0
  /\ buf' = buf \o tail
  /\ quota' = quota - 1
  /\ rdErr' = e
  /\ UNCHANGED <<input, aside, pc, payload, reqBuilt, httpCalls, status, wire,
                 finalMessage, calls, consumed, closed>>

\* the caller's context is cancelled while the Read of the body is blocked
\* (no complete line buffered, no byte to read): the Read returns the
\* context's error
CancelRead ==
  /\ pc = "reading"
  /\ ~HasNL(buf)
  /\ rdErr = "none"
  /\ wire = <<>>
  /\ rdErr' = "cancelled"
  /\ UNCHANGED <<input, aside, pc, payload, reqBuilt, httpCalls, status, wire, quota, buf,
                 finalMessage, calls, consumed, closed>>

\* ReadBytes returns a line: one iteration of the loop
ReadLine ==
  /\ pc = "reading"
  /\ HasNL(buf)
  /\ LET n == FirstNL(buf)
         raw == SubSeq(buf, 1, n)
         r == IF provider = "openai" THEN OpenAILine(raw, finalMessage, cb)
                                     ELSE AnthropicLine(raw, finalMessage, cb) IN
       /\ buf' = SubSeq(buf, n + 1, Len(buf))
       /\ consumed' = Append(consumed, raw)
       /\ finalMessage' = r.fm
       /\ calls' = calls \o r.out
       /\ pc' = PcAfter(r.ctl)
       /\ closed' = BodyClose(r.ctl, closed)
  /\ UNCHANGED <<input, aside, payload, reqBuilt, httpCalls, status, wire, quota, rdErr>>

\* mutant: the bytes read before the error are decoded as a last line
ReadFailsDecodesTail ==
  /\ pc = "reading"
  /\ ~HasNL(buf)
  /\ rdErr # "none"
  /\ LET t == IF buf = <<>> THEN Step(finalMessage, <<>>, "continue")
               ELSE IF provider = "openai" THEN OpenAILine(buf, finalMessage, cb)
               ELSE AnthropicLine(buf, finalMessage, cb)
         e == IF provider = "openai" THEN OpenAIReadFailed(rdErr, t.fm, cb)
                                     ELSE AnthropicReadFailed(rdErr, t.fm, cb)
         r == IF t.ctl # "continue" THEN t ELSE Step(e.fm, t.out \o e.out, e.ctl) IN
       /\ finalMessage' = r.fm
       /\ calls' = calls \o r.out
       /\ pc' = PcAfter(r.ctl)
       /\ closed' = BodyClose(r.ctl, closed)
  /\ buf' = <<>>
  /\ UNCHANGED <<input, aside, payload, reqBuilt, httpCalls, status, wire, quota, rdErr, consumed>>

\* ReadBytes returns an error: the bytes read so far are dropped
ReadFails ==
  /\ pc = "reading"
  /\ ~HasNL(buf)
  /\ rdErr # "none"
  /\ LET r == IF provider = "openai" THEN OpenAIReadFailed(rdErr, finalMessage, cb)
                                     ELSE AnthropicReadFailed(rdErr, finalMessage, cb) IN
       /\ finalMessage' = r.fm
       /\ calls' = calls \o r.out
       /\ pc' = PcAfter(r.ctl)
       /\ closed' = BodyClose(r.ctl, closed)
  /\ buf' = <<>>
  /\ UNCHANGED <<input, aside, payload, reqBuilt, httpCalls, status, wire, quota, rdErr, consumed>>

Next ==
  \/ StreamChat
  \/ DoFails
  \/ \E code \in {StatusOK, StatusBad} : DoResponds(code)
  \/ \E line \in LinesOf(provider) : ServerSendError(line)
  \/ \E readOk \in BOOLEAN : Non200(readOk)
  \/ StartReading
  \/ \E line \in LinesOf(provider) : ServerSend(line)
  \/ \E k \in 1..Len(wire) : Read(k)
  \/ \E e \in {"eof", "err"} : ReadEnd(e)
  \/ \E e \in {"eof", "err"} : \E tail \in TruncatedOf(provider) : TruncatedEnd(e, tail)
  \/ CancelRead
  \/ ReadLine
  \/ ReadFails

Spec == Init /\ [][Next]_vars

\* Termination is checked for invocations that have a key and both terminal
\* callbacks, on bodies of at most MaxLinesLive lines.
InitLive ==
  /\ provider \in {"openai", "anthropic"}
  /\ ApiKey = "key"
  /\ Model = ""
  /\ \E c \in {k \in CallbackSets : Supplied(k, "OnFinish") /\ Supplied(k, "OnError")} :
       Called(c, MaxLinesLive)
  /\ peer = NoPeer

\* the body ends or a read of it fails
BodyEnds == (\E e \in {"eof", "err"} : ReadEnd(e)) \/ CancelRead

\* ENABLED <<ReadLine>>_vars: a complete line is buffered (the step always
\* appends to consumed)
LineReady == pc = "reading" /\ HasNL(buf)

\* The goroutine that runs processStream keeps running (every step of the
\* decoder that stays possible is taken, a Read returns the bytes that
\* arrived), and the body eventually ends or fails.  The condition on
\* ReadLine is WF_vars(ReadLine) with its ENABLED written out.
SpecLive ==
  /\ InitLive
  /\ [][Next]_vars
  /\ WF_vars(StartReading)
  /\ WF_vars(\E k \in 1..Len(wire) : Read(k))
  /\ ([]<>~LineReady \/ []<><<ReadLine>>_vars)
  /\ WF_vars(ReadFails)
  /\ WF_vars(BodyEnds)

(***************************************************************************)
(* Vocabulary of the properties                                            *)
(***************************************************************************)
Last(s) == s[Len(s)]

RECURSIVE Concat(_)
Concat(ts) == IF ts = <<>> THEN NoText ELSE Head(ts) \o Concat(Tail(ts))

RECURSIVE ArgsOf(_, _)
\* the arguments of the invocations of callback name in cs, in order
ArgsOf(name, cs) ==
  IF cs = <<>> THEN <<>>
  ELSE IF Head(cs).cb = name THEN <<Head(cs).text>> \o ArgsOf(name, Tail(cs))
  ELSE ArgsOf(name, Tail(cs))

ContentArgs == ArgsOf("OnContent", calls)
FinishArgs == ArgsOf("OnFinish", calls)
ErrorsOf(e) == {i \in 1..Len(calls) : calls[i] = ErrorCall(e)}
AnyError == \E i \in 1..Len(calls) : calls[i].cb = "OnError"

\* an OnError that reports a fatal failure: every error but a parse failure
IsTerminal(call) ==
  \/ call.cb = "OnFinish"
  \/ call.cb = "OnError" /\ call.err # ErrParse

ChunkTokens == {JChoiceA, JChoiceBC, JChoiceRole, JChoiceNone, JChoiceABC}
TypedTokens == {JDeltaA, JDeltaBC, JDeltaEmpty, JDeltaNil, JStop, JPing}

\* lines of a well-formed stream: `data: ` and an event of the provider's
\* shape (or the sentinel, for Shape A), blank separators, `event:` lines
Separators == { <<NL>>, <<EventLine, NL>> }
WellFormedA(ls) ==
  \A i \in 1..Len(ls) :
    \/ ls[i] \in Separators
    \/ \E t \in ChunkTokens \cup {DoneTok} : ls[i] = <<DataPrefix, t, NL>>
WellFormedB(ls) ==
  \A i \in 1..Len(ls) :
    \/ ls[i] \in Separators
    \/ \E t \in TypedTokens : ls[i] = <<DataPrefix, t, NL>>

DoneLine == <<DataPrefix, DoneTok, NL>>
StopLine == <<DataPrefix, JStop, NL>>
BadLine == <<DataPrefix, BadTok, NL>>

\* the payload of a line of provider p fails JSON deserialization
ParseFails(p, raw) ==
  LET line == TrimSpace(raw) IN
  /\ HasDataPrefix(line)
  /\ ~(p = "openai" /\ DataOf(line) = <<DoneTok>>)
  /\ ~Unmarshal(DataOf(line)).ok

\* the text fragment of the content-delta event a line carries for provider
\* p, NoText when it carries none
DeltaText(p, raw) ==
  LET line == TrimSpace(raw) IN
  IF ~HasDataPrefix(line) \/ ParseFails(p, raw) THEN NoText
  ELSE IF p = "openai"
    THEN IF DataOf(line) = <<DoneTok>> THEN NoText
         ELSE LET ev == Unmarshal(DataOf(line)).ev IN
              IF Len(ev.choices) > 0 THEN ev.choices[1] ELSE NoText
    ELSE LET ev == Unmarshal(DataOf(line)).ev IN
         IF ev.type = "content_block_delta" /\ ev.hasDelta THEN ev.text ELSE NoText

RECURSIVE Fragments(_, _)
\* the non-empty fragments of the lines ls, in order
Fragments(p, ls) ==
  IF ls = <<>> THEN <<>>
  ELSE IF DeltaText(p, Head(ls)) # NoText
    THEN <<DeltaText(p, Head(ls))>> \o Fragments(p, Tail(ls))
    ELSE Fragments(p, Tail(ls))

(***************************************************************************)
(* Properties                                                              *)
(***************************************************************************)

\* C1: with all three callbacks supplied, a terminal callback (OnFinish, or
\* an OnError that reports a fatal failure) is only ever the last callback
\* invoked: there is at most one, and no OnContent, OnError or OnFinish
\* follows it; parse-failure OnErrors come before it.
C1_TerminalIsLast ==
  AllSupplied(cb) => \A i \in 1..(Len(calls) - 1) : ~IsTerminal(calls[i])

C1_Witness ==
  /\ AllSupplied(cb)
  /\ pc = "done"
  /\ Len(calls) = 3
  /\ calls[1].cb = "OnContent"
  /\ calls[2] = ErrorCall(ErrParse)
  /\ IsTerminal(calls[3])

\* C2: OpenAI, OnContent and OnFinish supplied: once the decoder has read a
\* well-formed stream up to its `data: [DONE]` line, it has returned, and
\* its last and only OnFinish carries the concatenation of the OnContent
\* arguments, in order.
C2_OpenAIFinishIsConcat ==
  ( /\ provider = "openai"
    /\ Supplied(cb, "OnContent") /\ Supplied(cb, "OnFinish")
    /\ consumed # <<>> /\ Last(consumed) = DoneLine
    /\ WellFormedA(consumed) )
  => /\ pc = "done"
     /\ Len(FinishArgs) = 1
     /\ Last(calls) = FinishCall(Concat(ContentArgs))

C2_Witness ==
  /\ provider = "openai"
  /\ consumed = << <<DataPrefix, JChoiceA, NL>>, <<DataPrefix, JChoiceBC, NL>>, DoneLine >>
  /\ calls = <<ContentCall(TextA), ContentCall(TextBC), FinishCall(<<"a", "b", "c">>)>>

\* C3: Anthropic, OnFinish supplied, well-formed stream: OnFinish is not
\* invoked while lines arrive and no message_stop was read; once the
\* message_stop line is read the decoder has returned and its last and only
\* OnFinish carries the concatenation of the OnContent arguments, in order.
C3_AnthropicFinishIsConcat ==
  ( /\ provider = "anthropic"
    /\ Supplied(cb, "OnFinish")
    /\ WellFormedB(consumed) )
  => /\ ( consumed # <<>> /\ Last(consumed) = StopLine )
        => /\ pc = "done"
           /\ Len(FinishArgs) = 1
           /\ Last(calls) = FinishCall(Concat(ContentArgs))
     /\ ( rdErr = "none" /\ \A i \in 1..Len(consumed) : consumed[i] # StopLine )
        => FinishArgs = <<>>

C3_Witness ==
  /\ provider = "anthropic"
  /\ consumed = << <<DataPrefix, JDeltaA, NL>>, <<DataPrefix, JDeltaBC, NL>>, StopLine >>
  /\ calls = <<ContentCall(TextA), ContentCall(TextBC), FinishCall(<<"a", "b", "c">>)>>

\* C4: whichever callbacks are supplied, every OnFinish carries the
\* concatenation of the non-empty fragments of the content-delta events read
\* so far (also when OnContent is nil).
C4_AccumulatesWithoutOnContent ==
  \A i \in 1..Len(calls) :
    calls[i].cb = "OnFinish" => calls[i].text = Concat(Fragments(provider, consumed))

\* C5: with OnContent supplied, the OnContent arguments are exactly the
\* non-empty fragments of the content-delta events read, one call per event
\* and in their order; OnContent never gets the empty string.
C5_ContentInOrder ==
  Supplied(cb, "OnContent")
  => /\ ContentArgs = Fragments(provider, consumed)
     /\ \A i \in 1..Len(ContentArgs) : ContentArgs[i] # NoText

C5_Witness ==
  /\ Supplied(cb, "OnContent")
  /\ Len(consumed) = 3
  /\ \E i \in 1..3 : DeltaText(provider, consumed[i]) = NoText /\ ~ParseFails(provider, consumed[i])
                     /\ HasDataPrefix(TrimSpace(consumed[i]))
  /\ ContentArgs = <<TextBC, TextA>>

\* a line that carries a content-delta event with a non-empty fragment
IsDeltaLine(p, raw) == DeltaText(p, raw) # NoText

\* the line on which the decoder of provider p finishes the stream
TerminatorOf(p) == IF p = "openai" THEN DoneLine ELSE StopLine

\* a stream of a valid content-delta, a malformed payload and another valid
\* content-delta, which then ends (end-of-input, or the terminator)
MalformedBetween(p, ls, end) ==
  /\ Len(ls) \in {3, 4}
  /\ IsDeltaLine(p, ls[1]) /\ ParseFails(p, ls[2]) /\ IsDeltaLine(p, ls[3])
  /\ IF Len(ls) = 3 THEN end = "eof" ELSE ls[4] = TerminatorOf(p)

\* C6: with the callbacks supplied, the iteration that reads a line whose
\* payload fails JSON deserialization invokes OnError once, for a parse
\* failure, leaves the accumulator as it is and goes on reading; and a
\* stream of a valid delta, a malformed payload and a valid delta ends with
\* OnContent, OnError, OnContent, OnFinish(both fragments), in this order.
C6_ParseFailureRecoverable ==
  [][ AllSupplied(cb) =>
       /\ ( consumed' # consumed /\ ParseFails(provider, Last(consumed')) )
          => /\ calls' = Append(calls, ErrorCall(ErrParse))
             /\ finalMessage' = finalMessage
             /\ pc' = "reading"
       /\ ( pc' = "done" /\ MalformedBetween(provider, consumed', rdErr') )
          => calls' = << ContentCall(DeltaText(provider, consumed'[1])),
                         ErrorCall(ErrParse),
                         ContentCall(DeltaText(provider, consumed'[3])),
                         FinishCall(DeltaText(provider, consumed'[1])
                                    \o DeltaText(provider, consumed'[3])) >>
    ]_vars

C6_Witness ==
  /\ pc = "done"
  /\ Len(consumed) >= 3 /\ consumed[2] = BadLine
  /\ calls = <<ContentCall(TextA), ErrorCall(ErrParse), ContentCall(TextBC),
               FinishCall(<<"a", "b", "c">>)>>

\* C7: OnFinish supplied: when the body reaches end-of-input after
\* content-delta events only (no sentinel, no message_stop), the call
\* returns with exactly one OnFinish, the last callback, carrying the
\* accumulated text (the fragments, when OnContent is supplied too), and
\* OnError is not invoked.
C7_EOFFinishes ==
  ( /\ Supplied(cb, "OnFinish")
    /\ rdErr = "eof" /\ pc # "reading"
    /\ consumed # <<>>
    /\ \A i \in 1..Len(consumed) : IsDeltaLine(provider, consumed[i]) )
  => /\ pc = "done"
     /\ Len(FinishArgs) = 1
     /\ Last(calls) = FinishCall(finalMessage)
     /\ Supplied(cb, "OnContent") => finalMessage = Concat(Fragments(provider, consumed))
     /\ ~AnyError

C7_Witness ==
  /\ AllSupplied(cb)
  /\ pc = "done"
  /\ rdErr = "eof"
  /\ Len(consumed) = 2
  /\ calls = <<ContentCall(TextA), ContentCall(TextBC), FinishCall(<<"a", "b", "c">>)>>

\* C8: OnError supplied: when a read of a status-200 body fails for another
\* reason than end-of-input, the call returns after exactly one read-failure
\* OnError, which is the last callback; OnFinish is not invoked.
C8_ReadFailureIsFatal ==
  ( Supplied(cb, "OnError") /\ rdErr = "err" /\ pc # "reading" )
  => /\ pc = "done"
     /\ Cardinality(ErrorsOf(ErrRead)) = 1
     /\ Last(calls) = ErrorCall(ErrRead)
     /\ FinishArgs = <<>>

C8_Witness ==
  /\ pc = "done"
  /\ rdErr = "err"
  /\ calls = <<ContentCall(TextA), ErrorCall(ErrRead)>>

\* C9: for every set of supplied callbacks and every outcome, StreamChat
\* returns normally: no nil callback is called, no panic leaves the call.
C9_NoPanic == pc # "panicked"

\* C10: with an empty ApiKey, StreamChat returns without building a request
\* and without an HTTP exchange; it invokes OnError once (when supplied) and
\* nothing else.
C10_EmptyKey ==
  ( ApiKey = "" /\ pc # "idle" )
  => /\ pc = "done"
     /\ ~reqBuilt /\ httpCalls = 0 /\ payload = NoPayload /\ status = 0
     /\ calls = IF Supplied(cb, "OnError") THEN <<ErrorCall(ErrInvalidKey)>> ELSE <<>>

C10_Witness ==
  /\ ApiKey = ""
  /\ pc = "done"
  /\ calls = <<ErrorCall(ErrInvalidKey)>>

\* C11: when the response status is not 200 and its body could be read, the
\* whole invocation produces exactly one callback, an OnError carrying the
\* status code and the body text; the body is never decoded as an event
\* stream (no line is consumed, nothing is accumulated), even when it is a
\* well-formed content line, and the driver adds no further OnError.
C11_Non200OneError ==
  (status # 0 /\ status # StatusOK /\ Supplied(cb, "OnError")) =>
    /\ consumed = <<>> /\ finalMessage = NoText /\ buf = <<>>
    /\ ContentArgs = <<>> /\ FinishArgs = <<>>
    /\ errBody.err = "none" => (pc = "process" /\ calls = <<>>)
    /\ errBody.err = "nil" =>
         /\ pc = "done"
         /\ calls = <<StatusErrorCall(ErrNon200Body, status, errBody.b)>>

C11_Witness ==
  /\ pc = "done" /\ status = StatusBad /\ errBody.err = "nil"
  /\ errBody.b \in {<<DataPrefix, JChoiceA, NL>>, <<DataPrefix, JDeltaA, NL>>}
  /\ Len(calls) = 1 /\ calls[1].cb = "OnError" /\ calls[1].text = errBody.b
  /\ calls[1].code = StatusBad

\* C12: when the response status is not 200 and reading its body fails, the
\* invocation produces exactly one callback, the read-body-failure OnError,
\* which still carries the status code; no status-and-body error and no
\* JSON-parse error is reported in addition.
C12_Non200ReadFailure ==
  (errBody.err = "failed" /\ Supplied(cb, "OnError")) =>
    /\ pc = "done"
    /\ Len(calls) = 1
    /\ calls[1].cb = "OnError" /\ calls[1].err = ErrNon200Read
    /\ calls[1].code = status /\ status # StatusOK
    /\ \A i \in 1..Len(calls) : calls[i].err \notin {ErrNon200Body, ErrParse}

C12_Witness ==
  /\ errBody.err = "failed" /\ pc = "done" /\ status = StatusBad
  /\ calls = <<StatusErrorCall(ErrNon200Read, StatusBad, NoText)>>

\* C13: when no response is obtained (transport failure), OnError is invoked
\* exactly once with the underlying cause, the decoder is never entered and
\* neither OnContent nor OnFinish is invoked.
C13_TransportFailure ==
  (ApiKey # "" /\ pc = "done" /\ status = 0) =>
    /\ httpCalls = 1
    /\ calls = IF Supplied(cb, "OnError") THEN <<ErrorCall(ErrTransport)>> ELSE <<>>
    /\ consumed = <<>> /\ finalMessage = NoText /\ closed = 0 /\ errBody = NoErrBody

C13_Witness ==
  /\ pc = "done" /\ status = 0 /\ httpCalls = 1
  /\ calls = <<ErrorCall(ErrTransport)>>
\* C14: when the context is cancelled while a read of the body is
\* outstanding, the read fails, and the invocation ends without ever
\* invoking OnFinish (the text accumulated so far is not delivered), without
\* any OnContent after the cancellation, and with the response body closed.
C14_CancelledRead ==
  [][ /\ rdErr = "cancelled" => ArgsOf("OnContent", calls') = ContentArgs
      /\ rdErr' = "cancelled" =>
           /\ ArgsOf("OnFinish", calls') = <<>>
           /\ pc' # "reading" => (pc' \in {"done", "panicked"} /\ closed' = 1)
           /\ (pc' # "reading" /\ Supplied(cb, "OnError")) =>
                (pc' = "done" /\ Last(calls') = ErrorCall(ErrRead)) ]_vars

C14_Witness ==
  /\ rdErr = "cancelled" /\ pc = "done" /\ closed = 1
  /\ finalMessage = TextA
  /\ calls = <<ContentCall(TextA), ErrorCall(ErrRead)>>

\* C15: once a response is obtained its body is closed exactly once by the
\* time the invocation is over, on every exit path (non-200, failed read of
\* the error body, terminator, end-of-input, read failure); it is not closed
\* when there was no response, and the body is not read after the close.
C15_BodyClosedOnce ==
  [][ /\ closed' <= 1
      /\ status' = 0 => closed' = 0
      /\ (status' # 0 /\ pc' \in {"done", "panicked"}) => closed' = 1
      /\ pc' \in {"process", "reading"} => closed' = 0
      /\ closed >= 1 => UNCHANGED <<wire, buf, rdErr, consumed, errBody>> ]_vars

C15_Witness ==
  /\ status = StatusOK /\ pc = "done" /\ closed = 1
  /\ consumed # <<>> /\ rdErr = "none"
\* a line of nothing but whitespace and its newline
IsBlank(raw) == \A i \in 1..Len(raw) : raw[i] \in {NL, SP}
NonBlank(ls) == SelectSeq(ls, LAMBDA raw : ~IsBlank(raw))

\* the decoding loop of provider p run by itself on the lines ls, from the
\* result acc of the lines before them
RECURSIVE Decode(_, _, _, _)
Decode(p, c, ls, acc) ==
  IF ls = <<>> \/ acc.ctl # "continue" THEN acc
  ELSE LET r == IF p = "openai" THEN OpenAILine(Head(ls), acc.fm, c)
                                ELSE AnthropicLine(Head(ls), acc.fm, c) IN
       Decode(p, c, Tail(ls), Step(r.fm, acc.out \o r.out, r.ctl))
Fresh == Step(NoText, <<>>, "continue")

\* C17: blank and whitespace-only lines trigger no callback, do not end the
\* stream and leave the accumulator alone: while the decoder reads lines, its
\* callbacks, its accumulator and whether it is still reading are those of
\* the same stream with every blank line taken out.
C17_BlankLinesIgnored ==
  (status = StatusOK /\ pc # "process" /\ rdErr = "none") =>
    LET r == Decode(provider, cb, NonBlank(consumed), Fresh) IN
    /\ calls = r.out
    /\ finalMessage = r.fm
    /\ pc = PcAfter(r.ctl)

C17_Witness ==
  /\ pc = "reading" /\ Len(consumed) = 3
  /\ consumed[1] = <<SP, NL>> /\ IsDeltaLine(provider, consumed[2]) /\ consumed[3] = <<NL>>
  /\ calls = <<ContentCall(DeltaText(provider, consumed[2]))>>
  /\ finalMessage = DeltaText(provider, consumed[2])
\* C18: with a non-empty key, the request carries the provider's default
\* model (gpt-4o, claude-3-opus-20240229) when the streamer's Model is unset,
\* and exactly the streamer's Model when it is set; in both cases max_tokens
\* is 1024 and stream is true, and building the request raises no error.
C18_ModelDefault ==
  (ApiKey # "" /\ pc # "idle") =>
    /\ payload.model =
         IF Model # "" THEN Model
         ELSE IF provider = "openai" THEN "gpt-4o" ELSE "claude-3-opus-20240229"
    /\ payload.max_tokens = 1024
    /\ payload.stream = TRUE
    /\ pc = "request" => calls = <<>>
    /\ \A i \in 1..Len(calls) : calls[i].err # ErrInvalidKey

C18_Witness ==
  /\ provider = "anthropic" /\ Model = "" /\ httpCalls = 1 /\ status = StatusOK
  /\ payload = [model |-> "claude-3-opus-20240229", max_tokens |-> 1024, stream |-> TRUE]
\* C20: Anthropic: for every stream and every set of supplied callbacks, the
\* first message_stop line is the last line the decoder reads, and no
\* callback is invoked after the ones that line caused.
C20_StopsAtMessageStop ==
  provider = "anthropic" =>
    \A i \in 1..Len(consumed) :
      consumed[i] = StopLine =>
        /\ i = Len(consumed)
        /\ pc # "reading"
        /\ Supplied(cb, "OnFinish") => Last(calls) = FinishCall(finalMessage)
\* the terminal invocations in the callback log
Terminals == {i \in 1..Len(calls) : IsTerminal(calls[i])}

\* C19: with both terminal callbacks supplied, a status-200 invocation whose
\* body eventually ends or fails a read terminates, and when it is over its
\* last callback is the one terminal invocation of the log (OnFinish, or
\* the read-failure OnError); the decoder neither loops forever nor returns
\* without a terminal callback.
C19_Terminates ==
  /\ (status = StatusOK) ~> (pc = "done")
  /\ [](status = StatusOK /\ pc # "process" =>
          /\ pc \in {"reading", "done"}
          /\ pc = "reading" => Terminals = {}
          /\ pc = "done" =>
               /\ Terminals = {Len(calls)}
               /\ Last(calls) \in {FinishCall(finalMessage), ErrorCall(ErrRead)})

C19_Witness ==
  /\ status = StatusOK /\ pc = "done" /\ rdErr = "err"
  /\ Len(consumed) = MaxLinesLive
  /\ Terminals = {Len(calls)} /\ Last(calls) = ErrorCall(ErrRead)
(***************************************************************************)
(* Two concurrent invocations on one streamer                              *)
(***************************************************************************)
\* The arguments and locals of the running invocation: everything but the
\* streamer value (provider, ApiKey, Model), which the invocations share.
Locals ==
  [cb |-> cb, pc |-> pc, payload |-> payload, reqBuilt |-> reqBuilt,
   httpCalls |-> httpCalls, status |-> status, wire |-> wire, quota |-> quota,
   buf |-> buf, rdErr |-> rdErr, finalMessage |-> finalMessage, calls |-> calls,
   consumed |-> consumed, closed |-> closed, errBody |-> errBody]

\* the same for an invocation that was called and has not taken a step
IdleLocals(c, q) ==
  [cb |-> c, pc |-> "idle", payload |-> NoPayload, reqBuilt |-> FALSE,
   httpCalls |-> 0, status |-> 0, wire |-> <<>>, quota |-> q,
   buf |-> <<>>, rdErr |-> "none", finalMessage |-> NoText, calls |-> <<>>,
   consumed |-> <<>>, closed |-> 0, errBody |-> NoErrBody]

\* mutant: finalMessage is a package-level variable, so the invocation that
\* is resumed finds what the other one left in it
ResumedAccumulatorShared(running, suspended) == running

\* `var finalMessage string` is declared inside processStream: the
\* invocation that is resumed finds its own accumulator
ResumedAccumulator(running, suspended) == suspended

\* the scheduler suspends the running goroutine and resumes the other one
Switch ==
  /\ peer.pc # "absent"
  /\ peer' = Locals
  /\ cb' = peer.cb
  /\ pc' = peer.pc
  /\ payload' = peer.payload
  /\ reqBuilt' = peer.reqBuilt
  /\ httpCalls' = peer.httpCalls
  /\ status' = peer.status
  /\ wire' = peer.wire
  /\ quota' = peer.quota
  /\ buf' = peer.buf
  /\ rdErr' = peer.rdErr
  /\ finalMessage' = ResumedAccumulator(finalMessage, peer.finalMessage)
  /\ calls' = peer.calls
  /\ consumed' = peer.consumed
  /\ closed' = peer.closed
  /\ errBody' = peer.errBody
  /\ UNCHANGED <<provider, ApiKey, Model>>

\* the lines the servers write when two invocations run: the two content
\* deltas and the provider's terminator
ConcLines(p) ==
  IF p = "openai"
    THEN {<<DataPrefix, JChoiceA, NL>>, <<DataPrefix, JChoiceBC, NL>>, <<DataPrefix, DoneTok, NL>>}
    ELSE {<<DataPrefix, JDeltaA, NL>>, <<DataPrefix, JDeltaBC, NL>>, <<DataPrefix, JStop, NL>>}

\* two goroutines call StreamChat on one streamer that has a key and no Model
InitConc ==
  /\ provider \in {"openai", "anthropic"}
  /\ ApiKey = "key"
  /\ Model = ""
  /\ \E c \in {k \in CallbackSets : AllSupplied(k)} :
       /\ Called(c, MaxLinesConc)
       /\ peer = IdleLocals(c, MaxLinesConc)

NextConc ==
  \/ StreamChat
  \/ DoFails
  \/ \E code \in {StatusOK, StatusBad} : DoResponds(code)
  \/ \E line \in ConcLines(provider) : ServerSendError(line)
  \/ \E readOk \in BOOLEAN : Non200(readOk)
  \/ StartReading
  \/ \E line \in ConcLines(provider) : ServerSend(line)
  \/ \E k \in 1..Len(wire) : Read(k)
  \/ \E e \in {"eof", "err"} : ReadEnd(e)
  \/ \E e \in {"eof", "err"} : \E tail \in TruncatedOf(provider) : TruncatedEnd(e, tail)
  \/ CancelRead
  \/ ReadLine
  \/ ReadFails
  \/ Switch

SpecConc == InitConc /\ [][NextConc]_vars

\* what the invocation with locals l has done is what StreamChat does when
\* it runs by itself on the bytes this invocation read
RunsAsAlone(p, l) ==
  /\ l.pc # "idle" => l.payload = RequestBody(IF p = "openai" THEN ModelGPT4o ELSE ModelClaude3Opus)
  /\ l.pc \in {"idle", "request", "process"} => l.calls = <<>>
  /\ (l.pc = "done" /\ l.status = 0) => l.calls = <<ErrorCall(ErrTransport)>>
  /\ (l.pc = "done" /\ l.status = StatusBad) =>
       l.calls = <<StatusErrorCall(IF l.errBody.err = "nil" THEN ErrNon200Body ELSE ErrNon200Read,
                                   StatusBad, l.errBody.b)>>
  /\ (l.status = StatusOK /\ l.pc # "process") =>
       LET r == Decode(p, l.cb, l.consumed, Fresh)
           e == IF l.pc = "reading" THEN <<>>
                ELSE IF l.rdErr = "none" THEN <<>>
                ELSE IF l.rdErr = "eof" THEN <<FinishCall(r.fm)>>
                ELSE <<ErrorCall(ErrRead)>> IN
       /\ l.finalMessage = r.fm
       /\ l.calls = r.out \o e
       /\ l.pc = IF e # <<>> THEN "done" ELSE PcAfter(r.ctl)

\* C16: two StreamChat invocations that run concurrently on one streamer do
\* not interfere: under every interleaving, the callback sequence of each
\* (its OnFinish argument included) and its accumulator are those of
\* StreamChat running by itself on the bytes that invocation read, each
\* request carries the default model, and the streamer's ApiKey and Model
\* stay as they were.
C16_NoInterference ==
  /\ ApiKey = "key" /\ Model = ""
  /\ RunsAsAlone(provider, Locals)
  /\ RunsAsAlone(provider, peer)

C16_Witness ==
  /\ pc = "reading" /\ finalMessage = TextA /\ calls = <<ContentCall(TextA)>>
  /\ peer.pc = "done" /\ peer.consumed # <<>> /\ peer.rdErr = "eof"
  /\ peer.calls = <<ContentCall(TextBC), FinishCall(TextBC)>>
\* C21: OpenAI: a `data: [DONE]` line is the last line the decoder reads;
\* with OnFinish supplied the decoder has returned, and that line caused
\* exactly one callback, OnFinish with the text accumulated from the lines
\* before it: no parse-failure OnError for the sentinel, nothing after it.
C21_DoneCompletes ==
  provider = "openai" =>
    \A i \in 1..Len(consumed) :
      consumed[i] = DoneLine =>
        /\ i = Len(consumed)
        /\ pc # "reading"
        /\ Supplied(cb, "OnFinish") =>
             LET before == Decode(provider, cb, SubSeq(consumed, 1, i - 1), Fresh) IN
             /\ pc = "done"
             /\ finalMessage = before.fm
             /\ calls = before.out \o <<FinishCall(before.fm)>>

C21_Witness ==
  /\ provider = "openai" /\ pc = "done"
  /\ consumed = << <<DataPrefix, JChoiceA, NL>>, DoneLine >>
  /\ buf = <<DataPrefix, JChoiceBC, NL>>
  /\ calls = <<ContentCall(TextA), FinishCall(TextA)>>
\* the newline-terminated lines of the bytes s, and the bytes after the last
\* newline
RECURSIVE SplitLines(_)
SplitLines(s) ==
  IF ~HasNL(s) THEN [lines |-> <<>>, rest |-> s]
  ELSE LET n == FirstNL(s)
           t == SplitLines(SubSeq(s, n + 1, Len(s))) IN
       [lines |-> <<SubSeq(s, 1, n)>> \o t.lines, rest |-> t.rest]

\* C22: the callbacks depend on the bytes of the body only, not on how they
\* are split into reads: however the reads cut the body, the lines the
\* decoder has consumed followed by the lines still buffered or in flight
\* are exactly the lines the server wrote (none lost, none duplicated, none
\* altered), and the callback log and the accumulator are those of the
\* decoding loop applied to the consumed lines.
C22_ChunkingIndependent ==
  (status = StatusOK /\ pc # "process" /\ rdErr = "none") =>
    LET unread == SplitLines(buf \o wire)
        r == Decode(provider, cb, consumed, Fresh) IN
    /\ unread.rest = <<>>
    /\ \A i \in 1..Len(consumed) : consumed[i] \in LinesOf(provider)
    /\ \A i \in 1..Len(unread.lines) : unread.lines[i] \in LinesOf(provider)
    /\ Len(consumed) + Len(unread.lines) + quota = QuotaOf(Model, cb)
    /\ calls = r.out
    /\ finalMessage = r.fm

C22_Witness ==
  /\ pc = "reading" /\ Len(consumed) = 1 /\ IsDeltaLine(provider, consumed[1])
  /\ calls = <<ContentCall(DeltaText(provider, consumed[1]))>>
  /\ Len(buf) = 2 /\ buf[1] = DataPrefix /\ wire # <<>> /\ wire[1] = NL /\ Len(wire) > 1
\* a non-blank line that does not start with `data: `: an `event:` line (or
\* an SSE comment), or `data:` with no blank after it
NotDataLine(raw) ==
  /\ ~IsBlank(raw)
  /\ raw[1] # DataPrefix
  /\ ~(raw[1] = DataColon /\ Len(raw) > 1 /\ raw[2] = SP)

\* Anthropic: a line whose payload parses to an event of a type other than
\* content_block_delta and message_stop
OtherEventLine(raw) ==
  /\ Len(raw) = 3 /\ raw[1] = DataPrefix /\ raw[3] = NL
  /\ raw[2] \in JsonTokens
  /\ JsonValue(raw[2]).type \notin {"content_block_delta", "message_stop"}

NotUnderstood(p, raw) == NotDataLine(raw) \/ (p = "anthropic" /\ OtherEventLine(raw))

\* C23: the iteration that reads a line the decoder does not understand (a
\* non-blank line without the `data: ` prefix; for Anthropic an event of
\* another type) invokes no callback, leaves the accumulator as it is and
\* goes on reading, for every set of callbacks.
C23_NotUnderstoodIgnored ==
  [][ ( Len(consumed') = Len(consumed) + 1 /\ NotUnderstood(provider, Last(consumed')) )
      => /\ calls' = calls
         /\ finalMessage' = finalMessage
         /\ pc' = "reading"
         /\ closed' = 0 ]_vars

C23_Witness ==
  /\ provider = "anthropic" /\ pc = "reading"
  /\ consumed = << <<DataPrefix, JDeltaA, NL>>, <<DataPrefix, JPing, NL>>, <<DataColon, JDeltaA, NL>> >>
  /\ calls = <<ContentCall(TextA)>> /\ finalMessage = TextA
\* C24: when ReadBytes fails (end-of-input included) with the bytes of an
\* unterminated line in hand, those bytes are discarded: the step consumes
\* no line, leaves the accumulator as it is, and adds at most the terminal
\* callback; at end-of-input OnFinish (when supplied) carries the text
\* accumulated from the newline-terminated lines only.
C24_UnterminatedTailDropped ==
  [][ ( pc = "reading" /\ rdErr # "none" /\ buf # <<>> /\ pc' # "reading" )
      => /\ consumed' = consumed
         /\ finalMessage' = finalMessage
         /\ finalMessage = Decode(provider, cb, consumed, Fresh).fm
         /\ buf' = <<>>
         /\ calls' = IF rdErr = "eof"
                       THEN IF Supplied(cb, "OnFinish")
                              THEN Append(calls, FinishCall(finalMessage)) ELSE calls
                       ELSE IF Supplied(cb, "OnError")
                              THEN Append(calls, ErrorCall(ErrRead)) ELSE calls ]_vars

C24_Witness ==
  /\ pc = "done" /\ rdErr = "eof" /\ buf = <<>> /\ wire = <<>>
  /\ Len(consumed) = 1 /\ quota = QuotaOf(Model, cb) - 2
  /\ IsDeltaLine(provider, consumed[1])
  /\ calls = <<ContentCall(DeltaText(provider, consumed[1])),
               FinishCall(DeltaText(provider, consumed[1]))>>
\* the `content` of each entry of the choices array of the chunk event a
\* line carries
ChoicesOf(raw) == JsonValue(raw[2]).choices
IsChunkLine(raw) ==
  Len(raw) = 3 /\ raw[1] = DataPrefix /\ raw[2] \in ChunkTokens /\ raw[3] = NL

\* C25: OpenAI: the iteration that reads a chunk event goes on reading and
\* looks at choices[0] only: when that entry's content is non-empty it is
\* appended to the accumulator and passed to OnContent (when supplied) in
\* one call; otherwise, and when choices is empty, nothing is called and the
\* accumulator stays; the content of later entries is never used.
C25_FirstChoiceOnly ==
  [][ ( provider = "openai" /\ Len(consumed') = Len(consumed) + 1
        /\ IsChunkLine(Last(consumed')) )
      => LET ch == ChoicesOf(Last(consumed')) IN
         /\ pc' = "reading"
         /\ IF ch # <<>> /\ ch[1] # NoText
              THEN /\ finalMessage' = finalMessage \o ch[1]
                   /\ calls' = IF Supplied(cb, "OnContent")
                                 THEN Append(calls, ContentCall(ch[1])) ELSE calls
              ELSE /\ finalMessage' = finalMessage
                   /\ calls' = calls ]_vars

C25_Witness ==
  /\ provider = "openai" /\ pc = "reading"
  /\ consumed = << <<DataPrefix, JChoiceABC, NL>>, <<DataPrefix, JChoiceNone, NL>> >>
  /\ calls = <<ContentCall(TextA)>> /\ finalMessage = TextA
====
